---- MODULE Spec2Model ----
(***************************************************************************)
(* Model of the analytical pipeline of the inventory dashboard:            *)
(*   - abc_segmentation       (src/src/abc_segmentation.py)                *)
(*   - forecast_item_demand   (src/src/forecasting.py)                     *)
(*   - the forecast display of main.py (src/main.py, lines 96-113)         *)
(* Monetary values are exact integers (the smallest currency unit), and a  *)
(* quotient of two of them is kept as the pair [num, den] and compared     *)
(* exactly, with the IEEE-754 outcomes of a division by zero (NaN, +-inf). *)
(* A timestamp is the pair [day, time]: a calendar day and a time of day.  *)
(***************************************************************************)
EXTENDS Integers, Sequences, FiniteSets

VARIABLES
    df,              \* the transactions handed to the function under study
    pc,              \* position in the function being executed
    raised,          \* exception that escaped to the caller ("none" if none)
    thresholds,      \* abc_segmentation: the (A, B) cutoffs
    grouped,         \* abc_segmentation: the frame built line by line
    item_code,       \* forecast_item_demand: requested StockCode
    periods,         \* forecast_item_demand: requested horizon
    daily,           \* forecast_item_demand: aggregated series (ds, y)
    model,           \* forecast_item_demand: the Prophet object
    forecast,        \* forecast_item_demand: the prediction frame
    fig,             \* forecast_item_demand: the plotly figure
    fit_called,      \* forecast_item_demand: model.fit(daily) was entered
    caught,          \* forecast_item_demand: stage whose exception was caught
    result,          \* forecast_item_demand: the returned triple
    future_forecast  \* main.py: rows displayed as the future forecast

vars == <<df, pc, raised, thresholds, grouped, item_code, periods, daily,
          model, forecast, fig, fit_called, caught, result, future_forecast>>

segVars == <<thresholds, grouped>>
fcVars == <<item_code, periods, daily, model, forecast, fig, fit_called,
            caught, result, future_forecast>>

----------------------------------------------------------------------------
(* Bounds and input domains *)

\* most rows in the transaction frame
MaxRows == 3

\* distinct stock codes in the frame handed to abc_segmentation
NumItems == 2

\* stock codes (ordered as their strings are), line values, cutoffs
StockCodes == 1..NumItems

Values == {-1, 0, 1, 4}

ThresholdPairs == { << <<4, 5>>, <<19, 20>> >>,
                    << <<1, 2>>, <<4, 5>> >>,
                    << <<4, 5>>, <<1, 2>> >> }

\* the frame handed to forecast_item_demand: the requested item and one
\* other item, on two calendar days at two times of day
ForecastCodes == {1, 2}

Days == {1, 2}

Times == {0, 1}

Quantities == {1}

Periods == {-2, -1, 0, 1, 2}

\* Python's None, and a value that is present
None == <<>>
Some(x) == <<x>>

\* the call has returned nothing (yet)
NotReturned == <<>>

----------------------------------------------------------------------------
(* Sequence helpers *)

RECURSIVE SumSeq(_)
SumSeq(s) == IF s = <<>> THEN 0 ELSE Head(s) + SumSeq(Tail(s))

Range(s) == { s[i] : i \in DOMAIN s }

SeqsUpTo(S, n) == UNION { [1..k -> S] : k \in 0..n }

Min(S) == CHOOSE x \in S : \A y \in S : x <= y

RECURSIVE Ascending(_)
Ascending(S) ==
    IF S = {} THEN <<>> ELSE <<Min(S)>> \o Ascending(S \ {Min(S)})

----------------------------------------------------------------------------
(* abc_segmentation(df, value_column='TotalValue', item_column='StockCode') *)

SegRows == [StockCode : StockCodes, TotalValue : Values]

\* the value column of a frame, as a series
ValueColumn(s) == [i \in DOMAIN s |-> s[i].TotalValue]

\* Mutant of GroupBySum: the aggregation is lost, one row per transaction.
GroupByNoSum(d) ==
    [i \in DOMAIN d |-> [StockCode |-> d[i].StockCode, TotalValue |-> d[i].TotalValue]]

\* df.groupby(item_column)[value_column].sum().reset_index():
\* one row per distinct key, keys in ascending order, values summed.
GroupBySum(d) ==
    LET keys == Ascending({ r.StockCode : r \in Range(d) })
    IN  [i \in 1..Len(keys) |->
            [StockCode  |-> keys[i],
             TotalValue |-> LET Has(r) == r.StockCode = keys[i]
                            IN  SumSeq(ValueColumn(SelectSeq(d, Has)))]]

\* Mutant of IsSortedBy: ascending=False is lost.
IsSortedAscending(s) ==
    \A i, j \in DOMAIN s : i < j => s[i].TotalValue <= s[j].TotalValue

\* ascending=False: no row is followed by one of larger value.
IsSortedBy(s) ==
    \A i, j \in DOMAIN s : i < j => s[i].TotalValue >= s[j].TotalValue

IsPermutation(s, t) ==
    /\ Len(s) = Len(t)
    /\ \E p \in [DOMAIN s -> DOMAIN s] :
          /\ \A i, j \in DOMAIN s : i # j => p[i] # p[j]
          /\ \A i \in DOMAIN s : s[i] = t[p[i]]

\* grouped.sort_values(by=value_column, ascending=False) with the default
\* kind='quicksort', which is not a stable sort: any descending arrangement
\* of the rows is a possible outcome, rows of equal value in either order.
SortValues(s) ==
    { t \in [DOMAIN s -> Range(s)] : IsPermutation(t, s) /\ IsSortedBy(t) }

\* Mutant of CumSum: the running sum leaves the current row out.
CumSumExclusive(s, i) == SumSeq(ValueColumn(SubSeq(s, 1, i - 1)))

\* Series.cumsum(): inclusive running sum in row order.
CumSum(s, i) == SumSeq(ValueColumn(SubSeq(s, 1, i)))

\* Series.sum(): the grand total (0 for an empty series).
GrandTotal(s) == SumSeq(ValueColumn(s))

\* float division CumulativeSum / total, kept exact.
Divide(a, b) == [num |-> a, den |-> b]

IsNaN(q) == q.den = 0 /\ q.num = 0
IsInf(q) == q.den = 0 /\ q.num # 0

\* q <= t for a float quotient q and a positive cutoff t = <<n, d>>:
\* every comparison with NaN is false, -inf is below and +inf above t.
FloatLeq(q, t) ==
    IF q.den > 0 THEN q.num * t[2] <= t[1] * q.den
    ELSE IF q.den < 0 THEN q.num * t[2] >= t[1] * q.den
    ELSE q.num < 0

\* q < t, same conventions.
FloatLt(q, t) ==
    IF q.den > 0 THEN q.num * t[2] < t[1] * q.den
    ELSE IF q.den < 0 THEN q.num * t[2] > t[1] * q.den
    ELSE q.num < 0

\* Mutant of get_category: the cutoffs are exclusive.
get_category_exclusive(cum_perc, th) ==
    IF FloatLt(cum_perc, th[1]) THEN "A"
    ELSE IF FloatLt(cum_perc, th[2]) THEN "B"
    ELSE "C"

get_category(cum_perc, th) ==
    IF FloatLeq(cum_perc, th[1]) THEN "A"
    ELSE IF FloatLeq(cum_perc, th[2]) THEN "B"
    ELSE "C"

SegInit ==
    /\ df \in SeqsUpTo(SegRows, MaxRows)
    /\ thresholds \in ThresholdPairs
    /\ pc = "groupby"
    /\ raised = "none"
    /\ grouped = <<>>
    /\ item_code = None /\ periods = 0 /\ daily = None
    /\ model = None /\ forecast = None /\ fig = "unassigned"
    /\ fit_called = FALSE /\ caught = "none"
    /\ result = NotReturned /\ future_forecast = <<>>

\* line 14
GroupBy ==
    /\ pc = "groupby"
    /\ grouped' = GroupBySum(df)
    /\ pc' = "sort_values"
    /\ UNCHANGED <<df, raised, thresholds>>
    /\ UNCHANGED fcVars

\* line 15
Sort ==
    /\ pc = "sort_values"
    /\ grouped' \in SortValues(grouped)
    /\ pc' = "cumsum"
    /\ UNCHANGED <<df, raised, thresholds>>
    /\ UNCHANGED fcVars

\* line 16
CumulativeSum ==
    /\ pc = "cumsum"
    /\ grouped' = [i \in DOMAIN grouped |->
                      [StockCode     |-> grouped[i].StockCode,
                       TotalValue    |-> grouped[i].TotalValue,
                       CumulativeSum |-> CumSum(grouped, i)]]
    /\ pc' = "cumperc"
    /\ UNCHANGED <<df, raised, thresholds>>
    /\ UNCHANGED fcVars

\* Mutant of CumulativePerc: a zero grand total is rejected before the
\* division, an empty frame included.
CumulativePercGuarded ==
    /\ pc = "cumperc"
    /\ IF GrandTotal(grouped) = 0
       THEN /\ raised' = "DegenerateInputError"
            /\ pc' = "done"
            /\ UNCHANGED grouped
       ELSE /\ grouped' = [i \in DOMAIN grouped |->
                              [StockCode      |-> grouped[i].StockCode,
                               TotalValue     |-> grouped[i].TotalValue,
                               CumulativeSum  |-> grouped[i].CumulativeSum,
                               CumulativePerc |-> Divide(grouped[i].CumulativeSum,
                                                         GrandTotal(grouped))]]
            /\ pc' = "apply"
            /\ UNCHANGED raised
    /\ UNCHANGED <<df, thresholds>>
    /\ UNCHANGED fcVars

\* line 17
CumulativePerc ==
    /\ pc = "cumperc"
    /\ grouped' = [i \in DOMAIN grouped |->
                      [StockCode      |-> grouped[i].StockCode,
                       TotalValue     |-> grouped[i].TotalValue,
                       CumulativeSum  |-> grouped[i].CumulativeSum,
                       CumulativePerc |-> Divide(grouped[i].CumulativeSum,
                                                 GrandTotal(grouped))]]
    /\ pc' = "apply"
    /\ UNCHANGED <<df, raised, thresholds>>
    /\ UNCHANGED fcVars

\* lines 18-26
ApplyCategory ==
    /\ pc = "apply"
    /\ grouped' = [i \in DOMAIN grouped |->
                      [StockCode      |-> grouped[i].StockCode,
                       TotalValue     |-> grouped[i].TotalValue,
                       CumulativeSum  |-> grouped[i].CumulativeSum,
                       CumulativePerc |-> grouped[i].CumulativePerc,
                       ABC_Category   |-> get_category(grouped[i].CumulativePerc,
                                                       thresholds)]]
    /\ pc' = "done"
    /\ UNCHANGED <<df, raised, thresholds>>
    /\ UNCHANGED fcVars

SegNext == GroupBy \/ Sort \/ CumulativeSum \/ CumulativePerc \/ ApplyCategory

SegSpec == SegInit /\ [][SegNext]_vars

----------------------------------------------------------------------------
(* forecast_item_demand(df, item_code, date_column='InvoiceDate',          *)
(*                      value_column='Quantity', periods)                   *)

Timestamps == [day : Days, time : Times]

FcRows == [StockCode : ForecastCodes, InvoiceDate : Timestamps, Quantity : Quantities]

\* order of two timestamps
TsLess(a, b) == a.day < b.day \/ (a.day = b.day /\ a.time < b.time)

RECURSIVE AscendingTs(_)
AscendingTs(S) ==
    IF S = {} THEN <<>>
    ELSE LET m == CHOOSE x \in S : \A y \in S : x = y \/ TsLess(x, y)
         IN  <<m>> \o AscendingTs(S \ {m})

\* df[df['StockCode'] == item_code]
ItemRows(d, code) == LET Is(r) == r.StockCode = code IN SelectSeq(d, Is)

\* item_df.groupby(date_column)[value_column].sum().reset_index(), renamed
\* to (ds, y): one row per distinct value of the date column, which is the
\* full timestamp, in ascending order.
GroupByDate(item_df) ==
    LET keys == AscendingTs({ r.InvoiceDate : r \in Range(item_df) })
    IN  [i \in 1..Len(keys) |->
            [ds |-> keys[i],
             y  |-> LET Has(r) == r.InvoiceDate = keys[i]
                        rows == SelectSeq(item_df, Has)
                    IN  SumSeq([k \in DOMAIN rows |-> rows[k].Quantity])]]

PlusDays(ts, k) == [day |-> ts.day + k, time |-> ts.time]

\* Python s[:n]
SliceTo(s, n) ==
    IF n >= 0 THEN SubSeq(s, 1, IF n < Len(s) THEN n ELSE Len(s))
    ELSE SubSeq(s, 1, IF Len(s) + n > 0 THEN Len(s) + n ELSE 0)

\* pd.date_range(start, periods=n, freq='D'), defined for n >= 0
DateRange(start, n) == [k \in 1..n |-> PlusDays(start, k - 1)]

\* Prophet.make_future_dataframe(periods) with include_history=True
\* (called at line 63): the history dates, then the dates of
\* date_range(last_date, periods + 1) that are after last_date, cut to
\* [:periods].
make_future_dataframe(history_dates, n) ==
    LET last_date == history_dates[Len(history_dates)]
        dates == DateRange(last_date, n + 1)
        After(d) == TsLess(last_date, d)
    IN  history_dates \o SliceTo(SelectSeq(dates, After), n)

NoneTriple == <<None, None, None>>

FcInit ==
    /\ df \in SeqsUpTo(FcRows, MaxRows)
    /\ item_code \in ForecastCodes
    /\ periods \in Periods
    /\ pc = "aggregate"
    /\ raised = "none"
    /\ thresholds = << <<4, 5>>, <<19, 20>> >>
    /\ grouped = <<>>
    /\ daily = None
    /\ model = None /\ forecast = None /\ fig = "unassigned"
    /\ fit_called = FALSE /\ caught = "none"
    /\ result = NotReturned /\ future_forecast = <<>>

\* lines 29-36
Aggregate ==
    /\ pc = "aggregate"
    /\ daily' = GroupByDate(ItemRows(df, item_code))
    /\ pc' = "check"
    /\ UNCHANGED <<df, raised, item_code, periods, model, forecast, fig,
                   fit_called, caught, result, future_forecast>>
    /\ UNCHANGED segVars

\* lines 40-44
CheckLength ==
    /\ pc = "check"
    /\ IF Len(daily) < 2
       THEN result' = NoneTriple /\ pc' = "done"
       ELSE pc' = "fit" /\ UNCHANGED result
    /\ UNCHANGED <<df, raised, item_code, periods, daily, model, forecast, fig,
                   fit_called, caught, future_forecast>>
    /\ UNCHANGED segVars

\* lines 50-60: the model is built and fitted to daily, or the library raises
Fit ==
    /\ pc = "fit"
    /\ fit_called' = TRUE
    /\ \/ /\ model' = [history_dates |-> [i \in DOMAIN daily |-> daily[i].ds]]
          /\ pc' = "predict"
          /\ UNCHANGED caught
       \/ /\ caught' = "fit"
          /\ pc' = "except"
          /\ UNCHANGED model
    /\ UNCHANGED <<df, raised, item_code, periods, daily, forecast, fig,
                   result, future_forecast>>
    /\ UNCHANGED segVars

\* lines 63-66: date_range raises ValueError for a negative number of
\* periods; predict returns one row per date of the future frame, or raises
Predict ==
    /\ pc = "predict"
    /\ IF periods + 1 < 0
       THEN /\ caught' = "make_future_dataframe"
            /\ pc' = "except"
            /\ UNCHANGED forecast
       ELSE \/ /\ forecast' =
                    LET future == make_future_dataframe(model.history_dates, periods)
                    IN  [i \in DOMAIN future |-> [ds |-> future[i]]]
               /\ pc' = "plot"
               /\ UNCHANGED caught
            \/ /\ caught' = "predict"
               /\ pc' = "except"
               /\ UNCHANGED forecast
    /\ UNCHANGED <<df, raised, item_code, periods, daily, model, fig,
                   fit_called, result, future_forecast>>
    /\ UNCHANGED segVars

\* lines 69-76: plot_plotly returns a Figure, or something else (the triple
\* of None is returned), or raises
Plot ==
    /\ pc = "plot"
    /\ \/ /\ fig' = "Figure"
          /\ pc' = "layout"
          /\ UNCHANGED <<caught, result>>
       \/ /\ fig' = "NotAFigure"
          /\ result' = NoneTriple
          /\ pc' = "done"
          /\ UNCHANGED caught
       \/ /\ caught' = "plot_plotly"
          /\ pc' = "except"
          /\ UNCHANGED <<fig, result>>
    /\ UNCHANGED <<df, raised, item_code, periods, daily, model, forecast,
                   fit_called, future_forecast>>
    /\ UNCHANGED segVars

\* lines 78-98: the figure is laid out and the triple returned, or the
\* layout update raises
Layout ==
    /\ pc = "layout"
    /\ \/ /\ result' = <<Some(forecast), Some(model), Some(fig)>>
          /\ pc' = "done"
          /\ UNCHANGED caught
       \/ /\ caught' = "update_layout"
          /\ pc' = "except"
          /\ UNCHANGED result
    /\ UNCHANGED <<df, raised, item_code, periods, daily, model, forecast, fig,
                   fit_called, future_forecast>>
    /\ UNCHANGED segVars

\* Mutant of HandleException: only the ValueError of date_range is caught.
HandleValueErrorOnly ==
    /\ pc = "except"
    /\ IF caught = "make_future_dataframe"
       THEN result' = NoneTriple /\ UNCHANGED raised
       ELSE raised' = "Exception" /\ UNCHANGED result
    /\ pc' = "done"
    /\ UNCHANGED <<df, item_code, periods, daily, model, forecast, fig,
                   fit_called, caught, future_forecast>>
    /\ UNCHANGED segVars

\* lines 100-106: except Exception
HandleException ==
    /\ pc = "except"
    /\ result' = NoneTriple
    /\ pc' = "done"
    /\ UNCHANGED <<df, raised, item_code, periods, daily, model, forecast, fig,
                   fit_called, caught, future_forecast>>
    /\ UNCHANGED segVars

\* df['InvoiceDate'].max(), over every item of the dataset
MaxInvoiceDate(d) ==
    CHOOSE m \in { r.InvoiceDate : r \in Range(d) } :
        \A r \in Range(d) : r.InvoiceDate = m \/ TsLess(r.InvoiceDate, m)

\* main.py lines 96-113: the triple is unpacked; with a figure, the rows of
\* the forecast dated after df['InvoiceDate'].max() are displayed
Display ==
    /\ pc = "done"
    /\ raised = "none"
    /\ IF result[3] # None
       THEN future_forecast' =
                LET After(row) == TsLess(MaxInvoiceDate(df), row.ds)
                IN  SelectSeq(result[1][1], After)
       ELSE UNCHANGED future_forecast
    /\ pc' = "shown"
    /\ UNCHANGED <<df, raised, item_code, periods, daily, model, forecast, fig,
                   fit_called, caught, result>>
    /\ UNCHANGED segVars

FcNext ==
    \/ Aggregate \/ CheckLength \/ Fit \/ Predict \/ Plot \/ Layout
    \/ HandleException \/ Display

FcSpec == FcInit /\ [][FcNext]_vars

----------------------------------------------------------------------------
(* Properties of abc_segmentation, checked under SegSpec *)

Returned == pc = "done" /\ raised = "none"

ItemsOf(d) == { d[i].StockCode : i \in DOMAIN d }

ItemsIn(c) == { grouped[i].StockCode : i \in { k \in DOMAIN grouped : grouped[k].ABC_Category = c } }

Positive(d) == \A i \in DOMAIN d : d[i].TotalValue > 0

\* q > t, for the statements below
FloatGt(q, t) ==
    IF q.den > 0 THEN q.num * t[2] > t[1] * q.den
    ELSE IF q.den < 0 THEN q.num * t[2] < t[1] * q.den
    ELSE q.num > 0

\* C1: for a non-empty input the result has exactly one row per distinct
\* item of the input (none omitted, duplicated or invented), every row has
\* one category among A, B, C, and the three categories partition the items.
C1_Partition ==
    (pc = "done" /\ df # <<>>) =>
        /\ raised = "none"
        /\ ItemsOf(grouped) = ItemsOf(df)
        /\ \A i, j \in DOMAIN grouped :
              i # j => grouped[i].StockCode # grouped[j].StockCode
        /\ \A i \in DOMAIN grouped : grouped[i].ABC_Category \in {"A", "B", "C"}
        /\ ItemsIn("A") \cup ItemsIn("B") \cup ItemsIn("C") = ItemsOf(df)
        /\ ItemsIn("A") \cap ItemsIn("B") = {}
        /\ ItemsIn("A") \cap ItemsIn("C") = {}
        /\ ItemsIn("B") \cap ItemsIn("C") = {}

C1_Witness ==
    /\ Returned
    /\ Len(df) = MaxRows
    /\ Cardinality(ItemsOf(df)) = 2
    /\ Len(grouped) = 2
    /\ ItemsIn("A") # {} /\ ItemsIn("C") # {}

\* C2: a row is A exactly when its cumulative share is <= thresholds[0],
\* B exactly when it is > thresholds[0] and <= thresholds[1], C otherwise.
C2_Thresholds ==
    pc = "done" =>
        \A i \in DOMAIN grouped :
            LET q == grouped[i].CumulativePerc
                c == grouped[i].ABC_Category
                a == FloatLeq(q, thresholds[1])
                b == FloatGt(q, thresholds[1]) /\ FloatLeq(q, thresholds[2])
            IN  /\ q = Divide(grouped[i].CumulativeSum, GrandTotal(grouped))
                /\ (c = "A") <=> a
                /\ (c = "B") <=> b
                /\ (c = "C") <=> (~a /\ ~b)

\* a share exactly on the first default cutoff (4/5): the row is A
C2_Witness ==
    /\ Returned
    /\ thresholds = << <<4, 5>>, <<19, 20>> >>
    /\ \E i \in DOMAIN grouped :
          /\ grouped[i].CumulativePerc.den > 0
          /\ grouped[i].CumulativePerc.num * 5 = 4 * grouped[i].CumulativePerc.den
          /\ grouped[i].ABC_Category = "A"

C4_DegenerateInput ==
    (pc = "done" /\ df # <<>> /\ SumSeq(ValueColumn(df)) = 0) =>
        /\ raised = "DegenerateInputError"
        /\ \A i \in DOMAIN grouped :
              ~IsNaN(grouped[i].CumulativePerc) /\ ~IsInf(grouped[i].CumulativePerc)

\* C9: an empty input returns an empty result and raises nothing.
C9_EmptyInput ==
    (pc = "done" /\ df = <<>>) => (grouped = <<>> /\ raised = "none")

C9_Witness == pc = "done" /\ df = <<>> /\ grouped = <<>> /\ raised = "none"

\* the rows as they left the grouping step
Grouping(s) == [i \in DOMAIN s |-> [StockCode |-> s[i].StockCode, TotalValue |-> s[i].TotalValue]]

Sorted == pc \in {"cumsum", "cumperc", "apply", "done"}

----------------------------------------------------------------------------
(* Properties of forecast_item_demand and its display, checked under FcSpec *)

Finished == pc \in {"done", "shown"}

\* number of distinct calendar days on which the item has a transaction
ObservedDays(d, code) ==
    Cardinality({ r.InvoiceDate.day : r \in Range(ItemRows(d, code)) })

\* the last timestamp of the requested item
LastObserved(d, code) ==
    CHOOSE m \in { r.InvoiceDate : r \in Range(ItemRows(d, code)) } :
        \A r \in Range(ItemRows(d, code)) :
            r.InvoiceDate = m \/ TsLess(r.InvoiceDate, m)

Succeeded == Finished /\ Len(result) = 3 /\ result[3] # None

\* C5: with fewer than 2 distinct observed calendar days the call returns
\* (None, None, None) without attempting a fit, and with 2 or more it
\* proceeds to fit.
C5_InsufficientData ==
    Finished =>
        /\ fit_called <=> (ObservedDays(df, item_code) >= 2)
        /\ ObservedDays(df, item_code) < 2 => result = NoneTriple

\* C6: a call with periods <= 0 is rejected with an error surfaced to the
\* caller; it returns neither a forecast nor the insufficient-data triple.
C6_NonPositiveHorizon ==
    (Finished /\ periods <= 0) => (raised = "ContractViolation" /\ result = NotReturned)

\* C7: for a successful forecast with periods >= 1 the displayed future
\* portion is exactly the periods consecutive calendar days that follow the
\* last observed date of the requested item.
C7_HorizonContiguity ==
    (pc = "shown" /\ Succeeded /\ periods >= 1) =>
        /\ Len(future_forecast) = periods
        /\ \A k \in DOMAIN future_forecast :
              future_forecast[k].ds.day = LastObserved(df, item_code).day + k

\* C8: every failure of fitting, prediction or figure construction is caught
\* and turned into (None, None, None); the returned triple is all present or
\* all None, and nothing escapes to the caller.
C8_AllOrNothing ==
    Finished =>
        /\ raised = "none"
        /\ Len(result) = 3
        /\ \/ result = NoneTriple
           \/ \A k \in 1..3 : result[k] # None
        /\ (caught # "none" \/ fig = "NotAFigure") => result = NoneTriple

C8_Witness ==
    /\ Finished
    /\ caught = "predict"
    /\ fit_called
    /\ result = NoneTriple

====
